---- MODULE Spec2Model ----
(***************************************************************************)
(* Catalog microservice (products-ms): the entity store, the per-entity    *)
(* CRUD services with soft delete, the product relationship sub-resources  *)
(* and the recursive question/answer tree expansion of ProductsService.    *)
(*                                                                         *)
(* One behaviour exercises one service (svc, chosen by Init).  Handlers    *)
(* run sequentially: a handler that needs several store round trips (the   *)
(* product handlers, which expand the question tree) holds pc # "idle"     *)
(* until it returns.  The specifications of concurrent messages            *)
(* (SpecConcurrent, SpecEntityConcurrent, SpecImageConcurrent) interleave  *)
(* the round trips of several calls, and SpecAnyOrder those of the         *)
(* invocations of one expansion.                                           *)
(***************************************************************************)
EXTENDS Integers, Sequences, FiniteSets, TLC

VARIABLES
    db,     \* the entity store: one sequence of rows per table
    now,    \* the clock read by new Date() and by the ORM's updatedAt
    svc,    \* the service this behaviour exercises
    resp,   \* the response (or structured error) of the last handler; none
            \* while a handler is in flight
    pc,     \* "idle", or the position of the product handler in flight
    task,   \* the request of the handler in flight, or of the last one that was
    calls,  \* the expandQuestionsRecursively invocations of that handler
    uuid,   \* the number of row ids generated so far
    emitted, \* the events the last handler published with client.emit
    running \* the calls in flight where handlers interleave; where the queries
            \* of one expansion resolve in any order, the paths of its
            \* invocations in the order in which their queries resolved

vars == <<db, now, svc, resp, pc, task, calls, uuid, emitted, running>>

-----------------------------------------------------------------------------
(* Bounds of the model *)

\* last clock value: every write to an entity table happens at a later time
\* than the one before, and needs now < MaxTime
MaxTime == 4
\* row ids the generator hands out to relationship rows in one behaviour
MaxUuid == 2
\* rows of the QuestionProduct table drawn by the expansion specification
MaxRows == 3
\* items of one replaceByProductId / bulkCreate request
MaxItems == 2

-----------------------------------------------------------------------------
(* Values *)

\* SQL NULL of a timestamp column; real timestamps are >= 1
NullTime == 0
\* SQL NULL of a text column
NullUser == "null"

Actors == {"u1", "u2"}

\* the products and questions of the expansion specification
ExpandProducts == {1, 2}
ExpandQuestions == {1, 2}
Positions == {0, 1}

\* An invocation of expandQuestionsRecursively at this depth has more products
\* on its path than there are products, so one of them repeats: the recursion
\* below it never ends, and the model stops following it.
MaxDepth == Cardinality(ExpandProducts)

\* names are sequences of characters, so that search and ordering compute
Names == {<<"a">>, <<"A", "b">>}
Needles == {<<>>, <<"a">>, <<"B">>}

ProductStatus == {"ACTIVE", "INACTIVE", "OUT_OF_STOCK"}

EntityKinds ==
    {"product", "tag", "chain", "restaurant", "category", "ingredient", "question"}

\* entities whose create / update DTO carries a boolean status
BoolStatusKinds == {"restaurant", "category"}
\* entities with a boolean status column
StatusColumnKinds == {"restaurant", "category", "ingredient"}
\* entities with a unique index on name
UniqueNameKinds == {"tag", "ingredient"}
\* entities whose findAll / searchByName order by name
OrderByNameKinds == {"tag", "ingredient", "question"}
\* entities with a searchByName handler
SearchKinds == {"tag", "ingredient", "question"}

\* ids a request may carry; generated ids start at 1, so 0 names no row
IdInputs == 0..(MaxTime - 1)
Pages == 1..2
Limits == 1..2

Min(a, b) == IF a < b THEN a ELSE b

\* the sequences over S of length at most n
SeqsUpTo(S, n) == UNION {[1..m -> S] : m \in 0..n}

-----------------------------------------------------------------------------
(* Text: case-insensitive contains, and the ordering of orderBy name asc *)

Lower(c) == CASE c = "A" -> "a" [] c = "B" -> "b" [] OTHER -> c

\* digits sort before upper case, upper case before lower case
CharRank(c) ==
    CASE c = "8" -> 1 [] c = "9" -> 2 [] c = "A" -> 3 [] c = "B" -> 4
      [] c = "a" -> 5 [] OTHER -> 6

Contains(hay, needle) ==
    \E i \in 0..(Len(hay) - Len(needle)) :
        \A j \in 1..Len(needle) : Lower(hay[i + j]) = Lower(needle[j])

RECURSIVE NameLess(_, _)
NameLess(a, b) ==
    IF b = <<>> THEN FALSE
    ELSE IF a = <<>> THEN TRUE
    ELSE IF CharRank(Head(a)) # CharRank(Head(b))
         THEN CharRank(Head(a)) < CharRank(Head(b))
         ELSE NameLess(Tail(a), Tail(b))

OrderByName(rows) == SortSeq(rows, LAMBDA x, y : NameLess(x.name, y.name))

-----------------------------------------------------------------------------
(* The store *)

EmptyDb ==
    [product |-> <<>>, tag |-> <<>>, chain |-> <<>>, restaurant |-> <<>>,
     category |-> <<>>, ingredient |-> <<>>, question |-> <<>>,
     productSize |-> <<>>, productSchedule |-> <<>>, productRecipe |-> <<>>,
     productTag |-> <<>>, questionProduct |-> <<>>, translation |-> <<>>,
     productImage |-> <<>>]

Range(s) == {s[i] : i \in DOMAIN s}

\* findMany({ where }) without orderBy is SelectSeq: the rows that match, in
\* the store's order

\* variant: the lookup forgets deletedAt: null
FindUniqueAny(k, id) == SelectSeq(db[k], LAMBDA r : r.id = id)

\* variant: the lookup also asks for the active flag, as the lists do
FindUniqueActive(k, id) ==
    SelectSeq(db[k], LAMBDA r :
        /\ r.id = id /\ r.deletedAt = NullTime
        /\ CASE k = "product" -> r.status = "ACTIVE"
             [] k \in StatusColumnKinds -> r.status = TRUE
             [] k = "question" -> r.isActive = TRUE
             [] OTHER -> TRUE)

\* findUnique({ where: { id, deletedAt: null } })
FindUniqueLive(k, id) ==
    SelectSeq(db[k], LAMBDA r : r.id = id /\ r.deletedAt = NullTime)

\* update({ where: { id }, data }): the row's fields overwritten by data, and
\* its updatedAt column set by the ORM
ApplyData(row, data, t) ==
    [f \in DOMAIN row |->
        IF f \in DOMAIN data THEN data[f]
        ELSE IF f = "updatedAt" THEN t
        ELSE row[f]]

UpdateWhereId(table, id, data, t) ==
    [i \in DOMAIN table |->
        IF table[i].id = id THEN ApplyData(table[i], data, t) ELSE table[i]]

-----------------------------------------------------------------------------
(* Entity services: Product, Tag, Chain, Restaurant, Category, Ingredient,  *)
(* Question.  k is the table the service works on.                         *)

\* variant: the lists filter on the flag alone
WhereActive(k, r) ==
    CASE k = "product" -> r.status = "ACTIVE"
      [] k \in StatusColumnKinds -> r.status = TRUE
      [] k = "question" -> r.isActive = TRUE
      [] OTHER -> TRUE

\* the where of findAll and searchByName
WhereList(k, r) ==
    /\ r.deletedAt = NullTime
    /\ CASE k = "product" -> r.status = "ACTIVE"
         [] k \in StatusColumnKinds -> r.status = TRUE
         [] k = "question" -> r.isActive = TRUE
         [] OTHER -> TRUE

\* the create DTOs of a service, defaults applied
CreateDtos(k) ==
    CASE k = "product" -> [name : Names, status : ProductStatus]
      [] k \in BoolStatusKinds -> [name : Names, status : BOOLEAN]
      [] OTHER -> [name : Names]

\* the update DTOs of a service without their id: a partial patch
UpdateDtos(k) ==
    [name : Names] \cup
    (CASE k = "product" -> [status : ProductStatus]
       [] k \in BoolStatusKinds -> [status : BOOLEAN]
       [] OTHER -> {})

\* the row create({ data }) inserts: the data plus the column defaults
NewRow(k, id, dto, t) ==
    [id |-> id, updatedAt |-> t, deletedAt |-> NullTime, deletedBy |-> NullUser]
    @@ dto
    @@ (CASE k = "ingredient" -> [status |-> TRUE]
          [] k = "question" -> [isActive |-> TRUE]
          [] OTHER -> [id |-> id])

\* variant: the soft delete leaves the flag as it is
RemoveDataKeepFlag(k, deletedBy, t) == [deletedAt |-> t, deletedBy |-> deletedBy]

\* the data of the soft delete
RemoveData(k, deletedBy, t) ==
    [deletedAt |-> t, deletedBy |-> deletedBy]
    @@ (CASE k = "product" -> [status |-> "INACTIVE"]
          [] k \in StatusColumnKinds -> [status |-> FALSE]
          [] k = "question" -> [isActive |-> FALSE]
          [] OTHER -> [deletedAt |-> t])

\* a write that would give two rows of a unique-name table the same name
UniqueViolation(k, id, data) ==
    /\ k \in UniqueNameKinds
    /\ "name" \in DOMAIN data
    /\ \E r \in Range(db[k]) : r.id # id /\ r.name = data.name

\* Math.ceil(total / limit)
LastPage(total, limit) == (total + limit - 1) \div limit

\* variant: skip: page * limit
PaginateSkipPage(rows, page, limit) ==
    [list |-> SubSeq(rows, page * limit + 1, Min(page * limit + limit, Len(rows))),
     meta |-> [total |-> Len(rows), page |-> page,
               lastPage |-> (Len(rows) + limit - 1) \div limit]]

\* skip: (page - 1) * limit, take: limit
Paginate(rows, page, limit) ==
    [list |-> SubSeq(rows, (page - 1) * limit + 1,
                     Min((page - 1) * limit + limit, Len(rows))),
     meta |-> [total |-> Len(rows), page |-> page,
               lastPage |-> LastPage(Len(rows), limit)]]

ListOrder(k, rows) == IF k \in OrderByNameKinds THEN OrderByName(rows) ELSE rows

\* the services that publish a "created" event, and its name
EventKinds == {"product", "productSize", "productTag", "productRecipe"}

EventName(k) ==
    CASE k = "product" -> "product.created"
      [] k = "productSize" -> "product.size.created"
      [] k = "productTag" -> "product.tag.created"
      [] k = "productRecipe" -> "product.recipe.created"

\* variant: the event is published whatever the count of the insert
CreatedEventsAlways(k, productId, count) ==
    IF k \in EventKinds
    THEN <<[event |-> EventName(k), productId |-> productId]>>
    ELSE <<>>

\* what client.emit published after an insert of count rows for productId
CreatedEvents(k, productId, count) ==
    IF k \in EventKinds /\ count # 0
    THEN <<[event |-> EventName(k), productId |-> productId]>>
    ELSE <<>>

NotFound(op, id) == [op |-> op, status |-> 404, id |-> id]
InternalError(op, id) == [op |-> op, status |-> 500, id |-> id]
Ok(op, id, body) == [op |-> op, status |-> 200, id |-> id, body |-> body]

NoResp == [op |-> "none", status |-> 0, id |-> 0]
NoTask == [op |-> "none", id |-> 0, data |-> <<>>]

Idle == pc = "idle"

\* the insert is refused by the unique index, or the store cannot be reached
Create(dto, fault) ==
    /\ Idle /\ svc \in EntityKinds
    /\ now < MaxTime
    /\ IF fault = "create" \/ UniqueViolation(svc, uuid + 1, dto)
       THEN /\ resp' = InternalError("create", uuid + 1)
            /\ emitted' = <<>>
            /\ UNCHANGED <<db, uuid, now>>
       ELSE /\ db' = [db EXCEPT ![svc] = Append(@, NewRow(svc, uuid + 1, dto, now))]
            /\ uuid' = uuid + 1
            /\ now' = now + 1
            /\ emitted' = CreatedEvents(svc, uuid + 1, 1)
            /\ resp' = Ok("create", uuid + 1, NewRow(svc, uuid + 1, dto, now))
    /\ UNCHANGED <<svc, pc, task, calls, running>>

FindAll(page, limit) ==
    /\ Idle /\ svc \in EntityKinds
    /\ resp' = Ok("findAll", 0,
                  Paginate(ListOrder(svc, SelectSeq(db[svc], LAMBDA r : WhereList(svc, r))),
                           page, limit))
    /\ emitted' = <<>>
    /\ UNCHANGED <<db, now, svc, pc, task, calls, uuid, running>>

SearchByName(name, page, limit) ==
    /\ Idle /\ svc \in SearchKinds
    /\ resp' = Ok("searchByName", 0,
                  Paginate(OrderByName(SelectSeq(db[svc],
                               LAMBDA r : Contains(r.name, name) /\ WhereList(svc, r))),
                           page, limit))
    /\ emitted' = <<>>
    /\ UNCHANGED <<db, now, svc, pc, task, calls, uuid, running>>

\* findOne of every entity service but ProductsService
FindOne(id) ==
    /\ Idle /\ svc \in EntityKinds \ {"product"}
    /\ resp' = IF FindUniqueLive(svc, id) = <<>>
               THEN NotFound("findOne", id)
               ELSE Ok("findOne", id, FindUniqueLive(svc, id)[1])
    /\ emitted' = <<>>
    /\ UNCHANGED <<db, now, svc, pc, task, calls, uuid, running>>

\* the write with which update and remove end, after their findOne succeeded
WriteRow(op, k, id, data) ==
    IF UniqueViolation(k, id, data)
    THEN /\ resp' = InternalError(op, id)
         /\ UNCHANGED <<db, now>>
    ELSE /\ now < MaxTime
         /\ now' = now + 1
         /\ db' = [db EXCEPT ![k] = UpdateWhereId(@, id, data, now)]
         /\ resp' = Ok(op, id, ApplyData(CHOOSE r \in Range(db[k]) : r.id = id, data, now))

\* update of every entity service but ProductsService
Update(id, dto) ==
    /\ Idle /\ svc \in EntityKinds \ {"product"}
    /\ IF FindUniqueLive(svc, id) = <<>>
       THEN /\ resp' = NotFound("update", id)
            /\ UNCHANGED <<db, now>>
       ELSE WriteRow("update", svc, id, dto)
    /\ emitted' = <<>>
    /\ UNCHANGED <<svc, pc, task, calls, uuid, running>>

\* remove / delete of every entity service but ProductsService
Remove(id, deletedBy) ==
    /\ Idle /\ svc \in EntityKinds \ {"product"}
    /\ IF FindUniqueLive(svc, id) = <<>>
       THEN /\ resp' = NotFound("remove", id)
            /\ UNCHANGED <<db, now>>
       ELSE WriteRow("remove", svc, id, RemoveData(svc, deletedBy, now))
    /\ emitted' = <<>>
    /\ UNCHANGED <<svc, pc, task, calls, uuid, running>>

-----------------------------------------------------------------------------
(* ProductsService: findOne, update and remove expand the question tree.   *)
(* Each invocation of expandQuestionsRecursively is a call, named by its   *)
(* path <<i1, j1, i2, j2, ...>>: answer j1 of question i1 of the root, ... *)

\* include: { question: { include: { questionProducts: { where: ANSWER,
\* include: { product: true } } } } }
IncludeQuestion(questionId) ==
    LET question == CHOOSE q \in Range(db.question) : q.id = questionId
        answers == SelectSeq(db.questionProduct,
                       LAMBDA r : r.questionId = questionId /\ r.itemType = "ANSWER")
    IN  [questionProducts |->
            [j \in DOMAIN answers |->
                [product |-> CHOOSE p \in Range(db.product) : p.id = answers[j].productId]
                @@ answers[j]]]
        @@ question

\* variant: the where forgets the product
WhereAnyQuestion(r, productId) == r.itemType = "QUESTION"

\* the where of the findMany of expandQuestionsRecursively
WhereQuestionOf(r, productId) == r.productId = productId /\ r.itemType = "QUESTION"

Reverse(seq) == [i \in DOMAIN seq |-> seq[Len(seq) + 1 - i]]

\* variant: the rows come back last first
QueryQuestionProductsReversed(entity) ==
    LET rows == Reverse(SelectSeq(db.questionProduct,
                                  LAMBDA r : WhereQuestionOf(r, entity.id)))
    IN  [i \in DOMAIN rows |-> [question |-> IncludeQuestion(rows[i].questionId)] @@ rows[i]]

\* questionProduct.findMany of expandQuestionsRecursively(entity): no orderBy
QueryQuestionProducts(entity) ==
    LET rows == SelectSeq(db.questionProduct, LAMBDA r : WhereQuestionOf(r, entity.id))
    IN  [i \in DOMAIN rows |-> [question |-> IncludeQuestion(rows[i].questionId)] @@ rows[i]]

PendingCall(entity) == [entity |-> entity, queried |-> FALSE, questionProducts |-> <<>>]

\* variant: a visited set; an answer product that is already on the path is
\* returned as it is, without questions
ChildrenVisited(path, qps) ==
    LET paths == {path \o <<i, j>> : i \in DOMAIN qps, j \in 1..MaxRows}
        started == {p \in paths :
                      p[Len(p)] \in DOMAIN qps[p[Len(p) - 1]].question.questionProducts}
        onPath == {calls[SubSeq(path, 1, 2 * n)].entity.id : n \in 0..(Len(path) \div 2)}
    IN  [p \in started |->
            LET product == qps[p[Len(p) - 1]].question.questionProducts[p[Len(p)]].product
            IN  [entity |-> product, queried |-> product.id \in onPath,
                 questionProducts |-> <<>>]]

\* variant: the recursion is handed the entity again, not the answer
ChildrenOfSelf(path, qps) ==
    LET paths == {path \o <<i, j>> : i \in DOMAIN qps, j \in 1..MaxRows}
        started == {p \in paths :
                      p[Len(p)] \in DOMAIN qps[p[Len(p) - 1]].question.questionProducts}
    IN  [p \in started |-> PendingCall(calls[path].entity)]

\* answers.map((answer) => this.expandQuestionsRecursively(answer)): one
\* recursive invocation per answer of every question, whatever the answer
Children(path, qps) ==
    LET paths == {path \o <<i, j>> : i \in DOMAIN qps, j \in 1..MaxRows}
        started == {p \in paths :
                      p[Len(p)] \in DOMAIN qps[p[Len(p) - 1]].question.questionProducts}
    IN  [p \in started |->
            PendingCall(qps[p[Len(p) - 1]].question.questionProducts[p[Len(p)]].product)]

\* variant: the question is spread with its questionProducts
KeepQuestion(question) == question

\* const { questionProducts, ...cleanQuestion } = question
CleanQuestion(question) ==
    [f \in DOMAIN question \ {"questionProducts"} |-> question[f]]

\* the value the promise of the call at path resolves to
RECURSIVE Build(_)
Build(path) ==
    LET qps == calls[path].questionProducts
    IN  [questions |->
            [i \in DOMAIN qps |->
                [answers |->
                    [j \in DOMAIN qps[i].question.questionProducts |->
                        Build(path \o <<i, j>>)]]
                @@ CleanQuestion(qps[i].question)]]
        @@ calls[path].entity

\* the first lines of findOne, shared by update and remove
Start(op, id, data) ==
    /\ Idle /\ svc = "product"
    /\ IF FindUniqueLive("product", id) = <<>>
       THEN /\ resp' = NotFound(op, id)
            /\ UNCHANGED <<pc, task, calls>>
       ELSE /\ pc' = "expanding"
            /\ task' = [op |-> op, id |-> id, data |-> data]
            /\ calls' = (<<>> :> PendingCall(FindUniqueLive("product", id)[1]))
            /\ resp' = NoResp
    /\ emitted' = <<>>
    /\ UNCHANGED <<db, now, svc, uuid, running>>

ProductFindOne(id) == Start("findOne", id, <<>>)

ProductUpdate(id, dto) == Start("update", id, dto)

ProductRemove(id, deletedBy) == Start("remove", id, [deletedBy |-> deletedBy])

\* one invocation of expandQuestionsRecursively runs its query and starts the
\* invocations for the answers
Query(path) ==
    /\ pc = "expanding"
    /\ path \in DOMAIN calls
    /\ ~calls[path].queried
    /\ Len(path) \div 2 < MaxDepth
    /\ LET qps == QueryQuestionProducts(calls[path].entity)
       IN  calls' = Children(path, qps) @@
                    [calls EXCEPT ![path] =
                        [entity |-> @.entity, queried |-> TRUE, questionProducts |-> qps]]
    /\ UNCHANGED <<db, now, svc, resp, pc, task, uuid, emitted, running>>

\* every invocation has resolved: findOne returns the tree, update and remove
\* go on to their write
Finish ==
    /\ pc = "expanding"
    /\ \A p \in DOMAIN calls : calls[p].queried
    /\ pc' = "idle"
    /\ CASE task.op = "findOne" ->
                /\ resp' = Ok("findOne", task.id, Build(<<>>))
                /\ UNCHANGED <<db, now>>
         [] task.op = "update" -> WriteRow("update", "product", task.id, task.data)
         [] task.op = "remove" ->
                WriteRow("remove", "product", task.id,
                         RemoveData("product", task.data.deletedBy, now))
    /\ emitted' = IF task.op = "update" /\ resp'.status = 200
                  THEN <<[event |-> "product.updated", productId |-> task.id]>>
                  ELSE <<>>
    /\ UNCHANGED <<svc, task, calls, uuid, running>>

\* the ids a validateProducts request may carry
IdLists == SeqsUpTo(IdInputs, 2)

\* product.findMany({ where: { id: { in: ids } }, include: { sizes: { select:
\* { id, name, price } } } }): the where has no deletedAt
FindProductsIn(ids) ==
    LET products == SelectSeq(db.product, LAMBDA r : r.id \in ids)
    IN  [i \in DOMAIN products |->
            [sizes |->
                LET sizes == SelectSeq(db.productSize,
                                       LAMBDA r : r.productId = products[i].id)
                IN  [j \in DOMAIN sizes |->
                        [id |-> sizes[j].id, name |-> sizes[j].name,
                         price |-> sizes[j].price]]]
            @@ products[i]]

BadRequest(op, id) == [op |-> op, status |-> 400, id |-> id]

\* variant: the list is taken as it comes
KeepDuplicates(seq) == seq

\* Array.from(new Set(ids)): every value once, at its first place
RECURSIVE Unique(_)
Unique(seq) ==
    IF seq = <<>> THEN <<>>
    ELSE LET front == Unique(SubSeq(seq, 1, Len(seq) - 1))
             last == seq[Len(seq)]
         IN  IF last \in Range(front) THEN front ELSE Append(front, last)

\* the products found are counted against the ids without duplicates; missing
\* is the list the message of the error names
ValidateProducts(idList) ==
    /\ Idle /\ svc = "product"
    /\ LET ids == Unique(idList)
           products == FindProductsIn(Range(ids))
           foundIds == {products[i].id : i \in DOMAIN products}
       IN  resp' = IF Len(products) # Len(ids)
                   THEN [missing |-> SelectSeq(ids, LAMBDA id : id \notin foundIds)]
                        @@ BadRequest("validateProducts", 0)
                   ELSE Ok("validateProducts", 0, products)
    /\ task' = [op |-> "validateProducts", id |-> 0, data |-> idList]
    /\ emitted' = <<>>
    /\ UNCHANGED <<db, now, svc, pc, calls, uuid, running>>

-----------------------------------------------------------------------------
(* Relationship sub-resources of a product: ProductSizeService,            *)
(* ProductScheduleService, ProductRecipeService, ProductTagService and      *)
(* ProductQuestionService.  k is the table the service works on.           *)

RelKinds ==
    {"productSize", "productSchedule", "productRecipe", "productTag", "questionProduct"}

\* the product ids a request may carry
RelProducts == {1, 2}

\* "HH:mm" texts, named by the character in which they differ
Times == {<<"8">>, <<"9">>}

\* the items of a replace / bulkCreate request: the create DTO of the
\* sub-resource without its productId; optional fields may be left out
ItemDtos(k) ==
    CASE k = "productSize" ->
            [name : Names, price : {1}] \cup [name : {<<"a">>}, price : {1}, status : {FALSE}]
      [] k = "productSchedule" ->
            [dayOfWeek : {0, 1}, startTime : Times, endTime : {<<"9">>}]
      [] k = "productRecipe" ->
            [ingredientId : {1, 2, 3}, quantity : {1}]
      [] k = "productTag" ->
            [tagId : {1, 2, 3}]
      [] k = "questionProduct" ->
            [questionId : {1, 2}, itemType : {"QUESTION"}, position : Positions] \cup
            [questionId : {1}, itemType : {"ANSWER"}]

\* the foreign keys of a relationship table: column and referenced table
ForeignKeys(k) ==
    {<<"productId", "product">>} \cup
    (CASE k = "productRecipe" -> {<<"ingredientId", "ingredient">>}
       [] k = "productTag" -> {<<"tagId", "tag">>}
       [] k = "questionProduct" -> {<<"questionId", "question">>}
       [] OTHER -> {})

\* the columns a row gets from the table's defaults when the data leave them out
WithDefaults(k, row) ==
    CASE k = "productSize" -> row @@ [status |-> TRUE]
      [] k = "questionProduct" -> row @@ [position |-> 0]
      [] OTHER -> row

\* the data bulkCreate hands to createMany: items.map((item, index) => ...)
RelationshipData(k, productId, items) ==
    [i \in DOMAIN items |->
        IF k = "questionProduct"
        THEN [productId |-> productId,
              \* position: question.position || index
              position |-> IF "position" \in DOMAIN items[i] /\ items[i].position # 0
                           THEN items[i].position
                           ELSE i - 1]
             @@ items[i]
        ELSE [productId |-> productId] @@ items[i]]

\* the rows of product productId in table k of store d
RowsOf(d, k, productId) == SelectSeq(d[k], LAMBDA r : r.productId = productId)

\* variant: the delete matches no row
DeleteNone(d, k, productId) == d

\* deleteMany({ where: { productId } })
DeleteMany(d, k, productId) ==
    [d EXCEPT ![k] = SelectSeq(@, LAMBDA r : r.productId # productId)]

\* the INSERT of createMany is refused as a whole when a row of data breaks a
\* foreign key or the primary key of the table
ConstraintViolation(d, k, data) ==
    \/ \E i \in DOMAIN data : \E fk \in ForeignKeys(k) :
            \A r \in Range(d[fk[2]]) : r.id # data[i][fk[1]]
    \/ /\ k = "productTag"
       /\ \/ \E i, j \in DOMAIN data : i # j /\ data[i] = data[j]
          \/ \E i \in DOMAIN data : data[i] \in Range(d[k])

\* createMany({ data }): the rows appended, each with a generated id (the
\* ProductTag table has none)
CreateMany(d, k, data, firstId) ==
    [d EXCEPT ![k] = @ \o
        [i \in DOMAIN data |->
            IF k = "productTag" THEN data[i]
            ELSE [id |-> firstId + i] @@ WithDefaults(k, data[i])]]

GeneratedIds(k, items) == IF k = "productTag" THEN 0 ELSE Len(items)

Omit(row, fields) == [f \in DOMAIN row \ fields |-> row[f]]

ParentRow(d, table, id) == CHOOSE r \in Range(d[table]) : r.id = id

\* orderBy: [{ dayOfWeek: 'asc' }, { startTime: 'asc' }]
ScheduleLess(x, y) ==
    \/ x.dayOfWeek < y.dayOfWeek
    \/ x.dayOfWeek = y.dayOfWeek /\ NameLess(x.startTime, y.startTime)

\* the list findByProductId answers with
FindRows(k, productId) ==
    CASE k = "productSize" ->
            OrderByName(SelectSeq(db[k],
                LAMBDA r : r.productId = productId /\ r.status = TRUE))
      [] k = "productSchedule" ->
            LET rows == SortSeq(RowsOf(db, k, productId), ScheduleLess)
            IN  [i \in DOMAIN rows |-> Omit(rows[i], {"productId"})]
      [] k = "productRecipe" ->
            LET rows == RowsOf(db, k, productId)
                included == [i \in DOMAIN rows |->
                    [ingredient |->
                        Omit(ParentRow(db, "ingredient", rows[i].ingredientId),
                             {"updatedAt", "deletedAt", "deletedBy"})]
                    @@ Omit(rows[i], {"ingredientId"})]
            IN  SortSeq(included,
                        LAMBDA x, y : NameLess(x.ingredient.name, y.ingredient.name))
      [] k = "productTag" ->
            LET rows == RowsOf(db, k, productId)
                tags == [i \in DOMAIN rows |->
                    [id |-> rows[i].tagId,
                     name |-> ParentRow(db, "tag", rows[i].tagId).name]]
            IN  OrderByName(tags)
      [] k = "questionProduct" ->
            LET rows == SortSeq(RowsOf(db, k, productId),
                                LAMBDA x, y : x.position < y.position)
            IN  [i \in DOMAIN rows |->
                    [question |-> ParentRow(db, "question", rows[i].questionId)]
                    @@ Omit(rows[i], {"questionId", "productId"})]

\* the queries at which the connection to the store may be lost
Faults == {"none", "deleteMany", "createMany"}

FindByProductId(productId) ==
    /\ Idle /\ svc \in RelKinds
    /\ resp' = Ok("findByProductId", productId, FindRows(svc, productId))
    /\ task' = [op |-> "findByProductId", id |-> productId, data |-> <<>>]
    /\ emitted' = <<>>
    /\ UNCHANGED <<db, now, svc, pc, calls, uuid, running>>

RemoveByProductId(productId, fault) ==
    /\ Idle /\ svc \in RelKinds
    /\ IF fault = "deleteMany"
       THEN /\ resp' = InternalError("removeByProductId", productId)
            /\ UNCHANGED db
       ELSE /\ db' = DeleteMany(db, svc, productId)
            /\ resp' = Ok("removeByProductId", productId,
                          [deletedCount |-> Len(RowsOf(db, svc, productId))])
    /\ task' = [op |-> "removeByProductId", id |-> productId, data |-> <<>>]
    /\ emitted' = <<>>
    /\ UNCHANGED <<now, svc, pc, calls, uuid, running>>

\* bulkCreate(productId, items) run by handler op on store d
BulkCreateOn(d, op, productId, items, fault) ==
    LET data == RelationshipData(svc, productId, items)
    IN  IF fault = "createMany" \/ ConstraintViolation(d, svc, data)
        THEN /\ db' = d
             /\ resp' = InternalError(op, productId)
             /\ emitted' = <<>>
             /\ UNCHANGED uuid
        ELSE /\ db' = CreateMany(d, svc, data, uuid)
             /\ uuid' = uuid + GeneratedIds(svc, items)
             \* if (count) this.client.emit(...)
             /\ emitted' = CreatedEvents(svc, productId, Len(data))
             /\ resp' = Ok(op, productId, [createdCount |-> Len(data)])

BulkCreate(productId, items, fault) ==
    /\ Idle /\ svc \in RelKinds
    /\ uuid + GeneratedIds(svc, items) <= MaxUuid
    /\ BulkCreateOn(db, "bulkCreate", productId, items, fault)
    /\ task' = [op |-> "bulkCreate", id |-> productId, data |-> <<>>]
    /\ UNCHANGED <<now, svc, pc, calls, running>>

\* await this.removeByProductId(productId);
\* return await this.bulkCreate(productId, items);
ReplaceByProductId(productId, items, fault) ==
    /\ Idle /\ svc \in RelKinds
    /\ uuid + GeneratedIds(svc, items) <= MaxUuid
    /\ IF fault = "deleteMany"
       THEN /\ resp' = InternalError("replaceByProductId", productId)
            /\ emitted' = <<>>
            /\ UNCHANGED <<db, uuid>>
       ELSE BulkCreateOn(DeleteMany(db, svc, productId),
                         "replaceByProductId", productId, items, fault)
    /\ task' = [op |-> "replaceByProductId", id |-> productId, data |-> items,
                \* what removeByProductId answered, if it did
                deletedCount |-> IF fault = "deleteMany" THEN -1
                                 ELSE Len(RowsOf(db, svc, productId))]
    /\ UNCHANGED <<now, svc, pc, calls, running>>

\* what findOne and remove are called with: an id, or for the tag link, which
\* has no id column, the pair (productId, tagId)
RelKeys(k) ==
    IF k = "productTag" THEN [productId : RelProducts, tagId : {1, 2, 3}]
    ELSE IdInputs

\* where: { id }, where: { productId_tagId: { productId, tagId } }
MatchesKey(k, row, key) ==
    IF k = "productTag"
    THEN row.productId = key.productId /\ row.tagId = key.tagId
    ELSE row.id = key

\* findUnique({ where }) on table k: no condition besides the key
FindUniqueWhere(k, key) == SelectSeq(db[k], LAMBDA r : MatchesKey(k, r, key))

\* variant: the delete leaves the row in the table
DeleteNothing(k, table, key) == table

\* delete({ where }) on table k
DeleteWhere(k, table, key) == SelectSeq(table, LAMBDA r : ~MatchesKey(k, r, key))

\* the value findOne returns for the row it found (the translations included
\* with the question of a question link are left out)
FoundBody(k, row) ==
    CASE k = "productRecipe" ->
            [ingredient |-> ParentRow(db, "ingredient", row.ingredientId)]
            @@ Omit(row, {"productId", "ingredientId"})
      [] k = "productTag" ->
            [id |-> row.tagId, name |-> ParentRow(db, "tag", row.tagId).name]
      [] k = "questionProduct" ->
            [product |-> ParentRow(db, "product", row.productId),
             question |-> ParentRow(db, "question", row.questionId)] @@ row
      [] OTHER -> row

RelFindOne(key) ==
    /\ Idle /\ svc \in RelKinds
    /\ resp' = IF FindUniqueWhere(svc, key) = <<>>
               THEN NotFound("findOne", key)
               ELSE Ok("findOne", key, FoundBody(svc, FindUniqueWhere(svc, key)[1]))
    /\ task' = [op |-> "findOne", id |-> key, data |-> <<>>]
    /\ emitted' = <<>>
    /\ UNCHANGED <<db, now, svc, pc, calls, uuid, running>>

\* remove: the row is looked up, NOT_FOUND when there is none, then deleted
RelRemove(key, fault) ==
    /\ Idle /\ svc \in RelKinds
    /\ IF FindUniqueWhere(svc, key) = <<>>
       THEN /\ resp' = NotFound("remove", key)
            /\ UNCHANGED db
       ELSE IF fault = "delete"
       THEN /\ resp' = InternalError("remove", key)
            /\ UNCHANGED db
       ELSE /\ db' = [db EXCEPT ![svc] = DeleteWhere(svc, @, key)]
            /\ resp' = Ok("remove", key,
                    IF svc = "questionProduct"
                    THEN FindUniqueWhere(svc, key)[1]
                    ELSE [productId |-> FindUniqueWhere(svc, key)[1].productId,
                          deletedCount |-> 1])
    /\ task' = [op |-> "remove", id |-> key, data |-> <<>>]
    /\ emitted' = <<>>
    /\ UNCHANGED <<now, svc, pc, calls, uuid, running>>

-----------------------------------------------------------------------------
(* Specification of the entity services *)

Init ==
    /\ db = EmptyDb
    /\ now = 1
    /\ svc \in EntityKinds
    /\ resp = NoResp
    /\ pc = "idle"
    /\ task = NoTask
    /\ calls = <<>>
    /\ uuid = 0
    /\ emitted = <<>>
    /\ running = <<>>

Next ==
    \/ \E dto \in CreateDtos(svc), fault \in {"none", "create"} : Create(dto, fault)
    \/ \E page \in Pages, limit \in Limits : FindAll(page, limit)
    \/ \E name \in Needles, page \in Pages, limit \in Limits :
            SearchByName(name, page, limit)
    \/ \E id \in IdInputs : FindOne(id)
    \/ \E id \in IdInputs, dto \in UpdateDtos(svc) : Update(id, dto)
    \/ \E id \in IdInputs, a \in Actors : Remove(id, a)
    \/ \E id \in IdInputs : ProductFindOne(id)
    \/ \E id \in IdInputs, dto \in UpdateDtos(svc) : ProductUpdate(id, dto)
    \/ \E id \in IdInputs, a \in Actors : ProductRemove(id, a)
    \/ \E path \in DOMAIN calls : Query(path)
    \/ Finish

Spec == Init /\ [][Next]_vars

\* ProductsService alone
InitProduct == Init /\ svc = "product"

NextProduct ==
    \/ \E dto \in CreateDtos(svc), fault \in {"none", "create"} : Create(dto, fault)
    \/ \E page \in Pages, limit \in Limits : FindAll(page, limit)
    \/ \E id \in IdInputs : ProductFindOne(id)
    \/ \E id \in IdInputs, dto \in UpdateDtos(svc) : ProductUpdate(id, dto)
    \/ \E id \in IdInputs, a \in Actors : ProductRemove(id, a)
    \/ \E path \in DOMAIN calls : Query(path)
    \/ Finish

\* validateProducts, and the handlers that create and soft-delete the
\* products it looks up
NextValidate ==
    \/ \E dto \in CreateDtos(svc), fault \in {"none", "create"} : Create(dto, fault)
    \/ \E id \in IdInputs, a \in Actors : ProductRemove(id, a)
    \/ \E path \in DOMAIN calls : Query(path)
    \/ Finish
    \/ \E idList \in IdLists : ValidateProducts(idList)

SpecProduct == InitProduct /\ [][NextValidate]_vars

\* validateProducts over a store that holds some products already; remove
\* soft-deletes them
InitValidate ==
    /\ svc = "product"
    /\ \E n \in 0..MaxUuid :
            /\ db = [EmptyDb EXCEPT !.product =
                        [i \in 1..n |->
                            NewRow("product", i,
                                   [name |-> <<"a">>, status |-> "ACTIVE"], 1)]]
            /\ uuid = n
    /\ now = 2
    /\ resp = NoResp
    /\ pc = "idle"
    /\ task = NoTask
    /\ calls = <<>>
    /\ emitted = <<>>
    /\ running = <<>>

NextValidateStored ==
    \/ \E id \in IdInputs, a \in Actors : ProductRemove(id, a)
    \/ \E path \in DOMAIN calls : Query(path)
    \/ Finish
    \/ \E idList \in IdLists : ValidateProducts(idList)

SpecValidate == InitValidate /\ [][NextValidateStored]_vars

-----------------------------------------------------------------------------
(* Specification of the question-tree expansion: findOne of ProductsService *)
(* over every small content of the QuestionProduct table.                  *)

\* the columns of a QuestionProduct row set by its creator; the rows that
\* attach an answer keep the default of the position column
QuestionProductData ==
    [questionId : ExpandQuestions, productId : ExpandProducts,
     position : Positions, itemType : {"QUESTION"}]
    \cup
    [questionId : ExpandQuestions, productId : ExpandProducts,
     position : {0}, itemType : {"ANSWER"}]

WithIds(rows) == [i \in DOMAIN rows |-> [id |-> i] @@ rows[i]]

ExpandDb(rows) ==
    [EmptyDb EXCEPT
        !.product = [i \in ExpandProducts |->
                        NewRow("product", i, [name |-> <<"a">>, status |-> "ACTIVE"], 1)],
        !.question = [i \in ExpandQuestions |->
                        NewRow("question", i, [name |-> <<"A", "b">>], 1)],
        !.questionProduct = WithIds(rows)]

InitExpand ==
    /\ db \in {ExpandDb(rows) : rows \in SeqsUpTo(QuestionProductData, MaxRows)}
    /\ now = 1
    /\ svc = "product"
    /\ resp = NoResp
    /\ pc = "idle"
    /\ task = NoTask
    /\ calls = <<>>
    /\ uuid = 0
    /\ emitted = <<>>
    /\ running = <<>>

\* the order in which the invocations were started: by depth, then by index
RECURSIVE StartedBefore(_, _)
StartedBefore(a, b) ==
    \/ Len(a) < Len(b)
    \/ /\ Len(a) = Len(b) /\ a # <<>>
       /\ \/ Head(a) < Head(b)
          \/ Head(a) = Head(b) /\ StartedBefore(Tail(a), Tail(b))

\* The store is not written while this specification expands a tree, so the
\* queries of concurrent invocations commute: they are taken in the order in
\* which the invocations were started.
Expanding ==
    \E path \in DOMAIN calls :
        /\ \A other \in DOMAIN calls :
                calls[other].queried \/ other = path \/ StartedBefore(path, other)
        /\ Query(path)

NextExpand ==
    \/ \E id \in ExpandProducts \cup {0} : ProductFindOne(id)
    \/ Expanding
    \/ Finish

SpecExpand == InitExpand /\ [][NextExpand]_vars

\* an awaited store query resolves, and so does a Promise.all whose members
\* all resolved
FairExpand == SpecExpand /\ WF_vars(Expanding) /\ WF_vars(Finish)

\* update and remove of a product over every small content of the
\* QuestionProduct table; one write per behaviour, the first of the clock
ExpandThenUpdate(id, dto) == now = 1 /\ ProductUpdate(id, dto)

ExpandThenRemove(id, deletedBy) == now = 1 /\ ProductRemove(id, deletedBy)

NextExpandWrite ==
    \/ \E id \in ExpandProducts, dto \in UpdateDtos("product") :
            ExpandThenUpdate(id, dto)
    \/ \E id \in ExpandProducts, deletedBy \in Actors :
            ExpandThenRemove(id, deletedBy)
    \/ Expanding
    \/ Finish

SpecExpandWrite == InitExpand /\ [][NextExpandWrite]_vars

FairExpandWrite == SpecExpandWrite /\ WF_vars(Expanding) /\ WF_vars(Finish)

\* The invocations Promise.all waits for are all in flight at once, and the
\* store answers their queries in any order: the query of any invocation
\* that was started may be the next to resolve.
QueryResolves(path) ==
    /\ pc = "expanding"
    /\ path \in DOMAIN calls
    /\ ~calls[path].queried
    /\ Len(path) \div 2 < MaxDepth
    /\ LET qps == QueryQuestionProducts(calls[path].entity)
       IN  calls' = Children(path, qps) @@
                    [calls EXCEPT ![path] =
                        [entity |-> @.entity, queried |-> TRUE, questionProducts |-> qps]]
    /\ running' = Append(running, path)
    /\ UNCHANGED <<db, now, svc, resp, pc, task, uuid, emitted>>

\* one findOne per behaviour: the order of its queries is kept in running
FindOneOnce(id) == resp = NoResp /\ ProductFindOne(id)

\* rows that attach questions to products 1 and 2 and offer products 2 and 3
\* as answers: a question can have two different answers that are not the
\* root
AnyOrderData ==
    [questionId : ExpandQuestions, productId : ExpandProducts,
     position : Positions, itemType : {"QUESTION"}]
    \cup
    [questionId : ExpandQuestions, productId : {2, 3},
     position : {0}, itemType : {"ANSWER"}]

InitAnyOrder ==
    /\ \E rows \in SeqsUpTo(AnyOrderData, MaxRows) :
            db = [ExpandDb(rows) EXCEPT !.product =
                    Append(@, NewRow("product", 3,
                                     [name |-> <<"a">>, status |-> "ACTIVE"], 1))]
    /\ now = 1
    /\ svc = "product"
    /\ resp = NoResp
    /\ pc = "idle"
    /\ task = NoTask
    /\ calls = <<>>
    /\ uuid = 0
    /\ emitted = <<>>
    /\ running = <<>>

NextAnyOrder ==
    \/ \E id \in ExpandProducts : FindOneOnce(id)
    \/ \E path \in DOMAIN calls : QueryResolves(path)
    \/ Finish

SpecAnyOrder == InitAnyOrder /\ [][NextAnyOrder]_vars

\* the table after remove / delete soft-deleted the rows with these ids: the
\* QuestionProduct rows that refer to them stay
SoftDeleteRows(k, table, ids) ==
    [i \in DOMAIN table |->
        IF table[i].id \in ids
        THEN ApplyData(table[i], RemoveData(k, "u1", 2), 2)
        ELSE table[i]]

\* the expansion over stores in which products or questions were soft-deleted
InitExpandDeleted ==
    /\ \E rows \in SeqsUpTo(QuestionProductData, MaxRows),
          products \in SUBSET ExpandProducts, questions \in SUBSET ExpandQuestions :
            /\ products \cup questions # {}
            /\ db = [ExpandDb(rows) EXCEPT
                        !.product = SoftDeleteRows("product", @, products),
                        !.question = SoftDeleteRows("question", @, questions)]
    /\ now = 3
    /\ svc = "product"
    /\ resp = NoResp
    /\ pc = "idle"
    /\ task = NoTask
    /\ calls = <<>>
    /\ uuid = 0
    /\ emitted = <<>>
    /\ running = <<>>

SpecExpandDeleted == InitExpandDeleted /\ [][NextExpand]_vars

-----------------------------------------------------------------------------
(* Specification of the relationship sub-resources: products, tags,        *)
(* ingredients and questions 1 and 2 exist; the relationship tables start  *)
(* empty and are filled by the handlers.                                   *)

RelDb ==
    [EmptyDb EXCEPT
        !.product = [i \in 1..2 |->
                        NewRow("product", i, [name |-> <<"a">>, status |-> "ACTIVE"], 1)],
        !.tag = <<NewRow("tag", 1, [name |-> <<"a">>], 1),
                  NewRow("tag", 2, [name |-> <<"A", "b">>], 1)>>,
        !.ingredient = <<NewRow("ingredient", 1, [name |-> <<"a">>], 1),
                         NewRow("ingredient", 2, [name |-> <<"A", "b">>], 1)>>,
        !.question = <<NewRow("question", 1, [name |-> <<"a">>], 1),
                       NewRow("question", 2, [name |-> <<"A", "b">>], 1)>>]

InitRel ==
    /\ db = RelDb
    /\ now = 1
    /\ svc \in RelKinds
    /\ resp = NoResp
    /\ pc = "idle"
    /\ task = NoTask
    /\ calls = <<>>
    /\ uuid = 0
    /\ emitted = <<>>
    /\ running = <<>>

\* the handlers that work on all the rows of one product
NextRelBulk ==
    \/ \E productId \in RelProducts : FindByProductId(productId)
    \/ \E productId \in RelProducts, fault \in Faults \ {"createMany"} :
            RemoveByProductId(productId, fault)
    \/ \E productId \in RelProducts, items \in SeqsUpTo(ItemDtos(svc), MaxItems),
          fault \in Faults \ {"deleteMany"} :
            BulkCreate(productId, items, fault)
    \/ \E productId \in RelProducts, items \in SeqsUpTo(ItemDtos(svc), MaxItems),
          fault \in Faults :
            ReplaceByProductId(productId, items, fault)

NextRel ==
    \/ NextRelBulk
    \/ \E key \in RelKeys(svc) : RelFindOne(key)
    \/ \E key \in RelKeys(svc), fault \in {"none", "delete"} : RelRemove(key, fault)

SpecRel == InitRel /\ [][NextRel]_vars

\* the services that publish events: ProductsService and the relationship
\* sub-resources
NextCatalog ==
    \/ svc = "product" /\ NextProduct
    \/ svc \in RelKinds /\ NextRelBulk

SpecCatalog == (InitProduct \/ InitRel) /\ [][NextCatalog]_vars

-----------------------------------------------------------------------------
(* TranslationsService behind TranslationsController.  The controller       *)
(* returns the service's promise as it is: it has no try / catch, so what   *)
(* the service throws is what leaves the handler.                          *)

LanguageCodes == {"es", "en"}

\* CreateTranslationDto; product 3 does not exist
TranslationDtos == [languageCode : LanguageCodes, name : {<<"a">>}, productId : {1, 2, 3}]

\* UpdateTranslationDto without its id
TranslationPatches == [name : {<<"A", "b">>}] \cup [languageCode : LanguageCodes]

\* an exception that is not an RpcException leaves the handler: error is the
\* object it carries, which has no status
Unhandled(op, id, exception, error) ==
    [op |-> op, id |-> id, exception |-> exception, error |-> error]

\* throw new NotFoundException({ message })
TranslationNotFound(op, id) ==
    Unhandled(op, id, "NotFoundException", [message |-> "not found"])

\* the row breaks Translation_productId_fkey or
\* Translation_productId_languageCode_key
TranslationViolation(row) ==
    \/ \A p \in Range(db.product) : p.id # row.productId
    \/ \E r \in Range(db.translation) :
            r.id # row.id /\ r.productId = row.productId
                          /\ r.languageCode = row.languageCode

TranslationRow(id, dto, t) == [id |-> id, updatedAt |-> t] @@ dto

TranslationCreate(dto) ==
    /\ Idle /\ svc = "translation"
    /\ uuid < MaxUuid /\ now < MaxTime
    /\ IF TranslationViolation(TranslationRow(uuid + 1, dto, now))
       THEN /\ resp' = Unhandled("create", uuid + 1, "PrismaClientKnownRequestError",
                                 [code |-> "P2002 / P2003"])
            /\ UNCHANGED <<db, uuid, now>>
       ELSE /\ db' = [db EXCEPT !.translation =
                        Append(@, TranslationRow(uuid + 1, dto, now))]
            /\ uuid' = uuid + 1
            /\ now' = now + 1
            /\ resp' = Ok("create", uuid + 1, TranslationRow(uuid + 1, dto, now))
    /\ emitted' = <<>>
    /\ UNCHANGED <<svc, pc, task, calls, running>>

\* findAllByEntity(TranslationEntityType.PRODUCT, entityId)
TranslationFindAllByEntity(productId) ==
    /\ Idle /\ svc = "translation"
    /\ resp' = Ok("findAllByEntity", productId,
                  SelectSeq(db.translation, LAMBDA r : r.productId = productId))
    /\ emitted' = <<>>
    /\ UNCHANGED <<db, now, svc, pc, task, calls, uuid, running>>

\* findUnique({ where: { id } })
TranslationFindUnique(id) == FindUniqueWhere("translation", id)

TranslationFindOne(id) ==
    /\ Idle /\ svc = "translation"
    /\ resp' = IF TranslationFindUnique(id) = <<>>
               THEN TranslationNotFound("findOne", id)
               ELSE Ok("findOne", id, TranslationFindUnique(id)[1])
    /\ emitted' = <<>>
    /\ UNCHANGED <<db, now, svc, pc, task, calls, uuid, running>>

TranslationUpdate(id, patch) ==
    /\ Idle /\ svc = "translation"
    /\ IF TranslationFindUnique(id) = <<>>
       THEN /\ resp' = TranslationNotFound("update", id)
            /\ UNCHANGED <<db, now>>
       ELSE IF TranslationViolation(ApplyData(TranslationFindUnique(id)[1], patch, now))
       THEN /\ resp' = Unhandled("update", id, "PrismaClientKnownRequestError",
                                 [code |-> "P2002 / P2003"])
            /\ UNCHANGED <<db, now>>
       ELSE /\ now < MaxTime
            /\ now' = now + 1
            /\ db' = [db EXCEPT !.translation = UpdateWhereId(@, id, patch, now)]
            /\ resp' = Ok("update", id, ApplyData(TranslationFindUnique(id)[1], patch, now))
    /\ emitted' = <<>>
    /\ UNCHANGED <<svc, pc, task, calls, uuid, running>>

TranslationDelete(id) ==
    /\ Idle /\ svc = "translation"
    /\ IF TranslationFindUnique(id) = <<>>
       THEN /\ resp' = TranslationNotFound("delete", id)
            /\ UNCHANGED db
       \* translation.delete({ where: { id } })
       ELSE /\ db' = [db EXCEPT !.translation = DeleteWhere("translation", @, id)]
            /\ resp' = Ok("delete", id, TranslationFindUnique(id)[1])
    /\ emitted' = <<>>
    /\ UNCHANGED <<now, svc, pc, task, calls, uuid, running>>

InitTranslation ==
    /\ db = RelDb
    /\ now = 1
    /\ svc = "translation"
    /\ resp = NoResp
    /\ pc = "idle"
    /\ task = NoTask
    /\ calls = <<>>
    /\ uuid = 0
    /\ emitted = <<>>
    /\ running = <<>>

NextTranslation ==
    \/ \E dto \in TranslationDtos : TranslationCreate(dto)
    \/ \E productId \in RelProducts : TranslationFindAllByEntity(productId)
    \/ \E id \in IdInputs : TranslationFindOne(id)
    \/ \E id \in IdInputs, patch \in TranslationPatches : TranslationUpdate(id, patch)
    \/ \E id \in IdInputs : TranslationDelete(id)

SpecTranslation == InitTranslation /\ [][NextTranslation]_vars

\* the services whose rows are deleted for good: TranslationsService and the
\* relationship sub-resources
NextHardDelete ==
    \/ svc = "translation" /\ NextTranslation
    \/ svc \in RelKinds /\ NextRel

SpecHardDelete == (InitTranslation \/ InitRel) /\ [][NextHardDelete]_vars

-----------------------------------------------------------------------------
(* Concurrent messages.  The transport hands a second message to the       *)
(* service while the handler of the first one waits for the store, so the  *)
(* two awaits of replaceByProductId are two steps, and the queries of      *)
(* other calls may run between them.  running[c] is the call of caller c.  *)

Callers == {1, 2}

NoCall == [pc |-> "idle", productId |-> 0, items |-> <<>>, status |-> 0,
           deletedCount |-> 0]

\* the ids the calls in flight will still ask the generator for
PendingIds ==
    LET sum[S \in SUBSET Callers] ==
            IF S = {} THEN 0
            ELSE LET c == CHOOSE x \in S : TRUE
                 IN  (IF running[c].pc \in {"removing", "creating"}
                      THEN GeneratedIds(svc, running[c].items) ELSE 0)
                     + sum[S \ {c}]
    IN  sum[Callers]

\* replaceByProductId is called: nothing has run yet
ReplaceStart(c, productId, items) ==
    /\ Idle /\ svc \in RelKinds
    /\ running[c].pc = "idle"
    /\ uuid + PendingIds + GeneratedIds(svc, items) <= MaxUuid
    /\ running' = [running EXCEPT ![c] =
            [NoCall EXCEPT !.pc = "removing", !.productId = productId,
                           !.items = items]]
    /\ UNCHANGED <<db, now, svc, resp, pc, task, calls, uuid, emitted>>

\* await this.removeByProductId(productId)
ReplaceRemove(c, fault) ==
    LET call == running[c]
    IN  /\ Idle /\ svc \in RelKinds
        /\ call.pc = "removing"
        /\ IF fault = "deleteMany"
           THEN /\ running' = [running EXCEPT ![c] =
                        [call EXCEPT !.pc = "done", !.status = 500]]
                /\ UNCHANGED db
           ELSE /\ db' = DeleteMany(db, svc, call.productId)
                /\ running' = [running EXCEPT ![c] =
                        [call EXCEPT !.pc = "creating",
                            !.deletedCount = Len(RowsOf(db, svc, call.productId))]]
        /\ UNCHANGED <<now, svc, resp, pc, task, calls, uuid, emitted>>

\* return await this.bulkCreate(productId, items)
ReplaceCreate(c, fault) ==
    LET call == running[c]
        data == RelationshipData(svc, call.productId, call.items)
    IN  /\ Idle /\ svc \in RelKinds
        /\ call.pc = "creating"
        /\ IF fault = "createMany" \/ ConstraintViolation(db, svc, data)
           THEN /\ running' = [running EXCEPT ![c] =
                        [call EXCEPT !.pc = "done", !.status = 500]]
                /\ emitted' = <<>>
                /\ UNCHANGED <<db, uuid>>
           ELSE /\ db' = CreateMany(db, svc, data, uuid)
                /\ uuid' = uuid + GeneratedIds(svc, call.items)
                /\ emitted' = CreatedEvents(svc, call.productId, Len(data))
                /\ running' = [running EXCEPT ![c] =
                        [call EXCEPT !.pc = "done", !.status = 200]]
        /\ UNCHANGED <<now, svc, resp, pc, task, calls>>

\* the rows product 1 has before the calls: none or one, with an id the
\* generator handed out earlier
PriorItems(k) ==
    {items \in SeqsUpTo(ItemDtos(k), 1) :
        ~ConstraintViolation(RelDb, k, RelationshipData(k, 1, items))}

InitConcurrent ==
    /\ svc \in RelKinds
    /\ \E prior \in PriorItems(svc) :
            db = CreateMany(RelDb, svc, RelationshipData(svc, 1, prior),
                            0 - Len(prior))
    /\ now = 1
    /\ resp = NoResp
    /\ pc = "idle"
    /\ task = NoTask
    /\ calls = <<>>
    /\ uuid = 0
    /\ emitted = <<>>
    /\ running = [c \in Callers |-> NoCall]

NextConcurrent ==
    \/ \E c \in Callers, productId \in RelProducts,
          items \in SeqsUpTo(ItemDtos(svc), MaxItems - 1) :
            ReplaceStart(c, productId, items)
    \/ \E c \in Callers, fault \in {"none", "deleteMany"} : ReplaceRemove(c, fault)
    \/ \E c \in Callers, fault \in {"none", "createMany"} : ReplaceCreate(c, fault)
    \/ \E productId \in RelProducts : FindByProductId(productId)

SpecConcurrent == InitConcurrent /\ [][NextConcurrent]_vars

\* update and remove of an entity service under concurrent messages: the
\* awaited findOne and the awaited write are two steps of the call
ConcurrentIds == {1, 2}

NoEntityCall == [pc |-> "idle", op |-> "none", id |-> 0, data |-> <<>>,
                 at |-> 0, status |-> 0]

\* update / remove is called: the DTO is taken apart, nothing has run yet.
\* at is the clock at the call: ChainService.delete builds its data, with
\* deletedAt: new Date(), before it awaits findOne
EntityCallStart(c, op, id, data) ==
    /\ Idle /\ svc \in EntityKinds
    /\ running[c].pc = "idle"
    /\ running' = [running EXCEPT ![c] =
            [pc |-> "finding", op |-> op, id |-> id, data |-> data,
             at |-> now, status |-> 0]]
    /\ UNCHANGED <<db, now, svc, resp, pc, task, calls, uuid, emitted>>

\* await this.findOne(id): findUnique({ where: { id, deletedAt: null } })
EntityCallFind(c) ==
    LET call == running[c]
    IN  /\ Idle /\ svc \in EntityKinds
        /\ call.pc = "finding"
        /\ running' = [running EXCEPT ![c] =
                IF FindUniqueLive(svc, call.id) = <<>>
                THEN [call EXCEPT !.pc = "done", !.status = 404]
                ELSE [call EXCEPT !.pc = IF svc = "product" THEN "expanding"
                                         ELSE "writing"]]
        /\ UNCHANGED <<db, now, svc, resp, pc, task, calls, uuid, emitted>>

\* findOne of ProductsService goes on to expand the product: here no
\* question is attached to it, and the one query of the expansion finds none
EntityCallExpand(c) ==
    LET call == running[c]
    IN  /\ Idle /\ svc = "product"
        /\ call.pc = "expanding"
        /\ QueryQuestionProducts([id |-> call.id]) = <<>>
        /\ running' = [running EXCEPT ![c] = [call EXCEPT !.pc = "writing"]]
        /\ UNCHANGED <<db, now, svc, resp, pc, task, calls, uuid, emitted>>

\* return this.<entity>.update({ where: { id }, data }); only
\* CategoriesService.update asks for where: { id, deletedAt: null }, and the
\* store rejects the update when no row matches
EntityCallWrite(c) ==
    LET call == running[c]
        data == IF call.op = "remove"
                THEN RemoveData(svc, call.data.deletedBy,
                                IF svc = "chain" THEN call.at ELSE now)
                ELSE call.data
    IN  /\ Idle /\ svc \in EntityKinds
        /\ call.pc = "writing"
        /\ IF svc = "category" /\ call.op = "update"
                /\ FindUniqueLive(svc, call.id) = <<>>
           THEN /\ resp' = InternalError(call.op, call.id)
                /\ UNCHANGED <<db, now>>
           ELSE WriteRow(call.op, svc, call.id, data)
        /\ running' = [running EXCEPT ![c] =
                [call EXCEPT !.pc = "done", !.status = resp'.status]]
        /\ emitted' = IF svc = "product" /\ call.op = "update" /\ resp'.status = 200
                      THEN <<[event |-> "product.updated", productId |-> call.id]>>
                      ELSE <<>>
        /\ UNCHANGED <<svc, pc, task, calls, uuid>>

\* one row, created at time 1, and no call yet
InitEntityConcurrent ==
    /\ svc \in EntityKinds
    /\ \E dto \in CreateDtos(svc) :
            db = [EmptyDb EXCEPT ![svc] = <<NewRow(svc, 1, dto, 1)>>]
    /\ now = 2
    /\ resp = NoResp
    /\ pc = "idle"
    /\ task = NoTask
    /\ calls = <<>>
    /\ uuid = 1
    /\ emitted = <<>>
    /\ running = [c \in Callers |-> NoEntityCall]

NextEntityConcurrent ==
    \/ \E c \in Callers, id \in ConcurrentIds, dto \in UpdateDtos(svc) :
            EntityCallStart(c, "update", id, dto)
    \/ \E c \in Callers, id \in ConcurrentIds, deletedBy \in Actors :
            EntityCallStart(c, "remove", id, [deletedBy |-> deletedBy])
    \/ \E c \in Callers : EntityCallFind(c)
    \/ \E c \in Callers : EntityCallExpand(c)
    \/ \E c \in Callers : EntityCallWrite(c)

SpecEntityConcurrent == InitEntityConcurrent /\ [][NextEntityConcurrent]_vars

-----------------------------------------------------------------------------
(* ProductImageService.setPrimary.  The images are rows of productImage;   *)
(* create stores any isPrimary it is given, so a product may have several  *)
(* primary images, or none.  The clock does not advance here.              *)

\* the columns of a ProductImage row set by its creator
ImageData == [productId : RelProducts, isPrimary : BOOLEAN]

ImageRows(data) ==
    [i \in DOMAIN data |-> [id |-> i, url |-> <<"a">>, updatedAt |-> 1] @@ data[i]]

\* SetPrimaryImageDto.imageId: the ids of the rows and one that no row has
ImageIds == 1..(MaxRows + 1)

\* variant: no image is unset
UnsetNothing(table, productId, t) == table

\* productImage.updateMany({ where: { productId }, data: { isPrimary: false } })
UnsetPrimary(table, productId, t) ==
    [i \in DOMAIN table |->
        IF table[i].productId = productId
        THEN ApplyData(table[i], [isPrimary |-> FALSE], t)
        ELSE table[i]]

\* the rows update({ where: { id: imageId, productId } }) matches
ImageOfProduct(table, imageId, productId) ==
    SelectSeq(table, LAMBDA r : r.id = imageId /\ r.productId = productId)

\* productImage.update({ where: { id: imageId, productId }, data: { isPrimary: true } })
MarkPrimary(table, imageId, productId, t) ==
    [i \in DOMAIN table |->
        IF table[i].id = imageId /\ table[i].productId = productId
        THEN ApplyData(table[i], [isPrimary |-> TRUE], t)
        ELSE table[i]]

\* setPrimary as one handler: the two writes one after the other, every
\* error answered as INTERNAL_SERVER_ERROR
SetPrimary(imageId, productId, fault) ==
    LET unset == UnsetPrimary(db.productImage, productId, now)
    IN  /\ Idle /\ svc = "productImage"
        /\ IF fault = "updateMany"
           THEN /\ resp' = InternalError("setPrimary", imageId)
                /\ UNCHANGED db
           ELSE IF fault = "update" \/ ImageOfProduct(unset, imageId, productId) = <<>>
           THEN /\ resp' = InternalError("setPrimary", imageId)
                /\ db' = [db EXCEPT !.productImage = unset]
           ELSE /\ db' = [db EXCEPT !.productImage =
                            MarkPrimary(unset, imageId, productId, now)]
                /\ resp' = Ok("setPrimary", imageId,
                        [productId |-> productId,
                         image |-> Omit(ApplyData(
                                ImageOfProduct(unset, imageId, productId)[1],
                                [isPrimary |-> TRUE], now), {"productId"})])
        /\ task' = [op |-> "setPrimary", id |-> imageId,
                    data |-> [productId |-> productId]]
        /\ emitted' = <<>>
        /\ UNCHANGED <<now, svc, pc, calls, uuid, running>>

\* findMany({ where: { productId }, select: { id, url, isPrimary },
\* orderBy: [{ isPrimary: 'desc' }, { createdAt: 'asc' }] }); the rows are
\* stored in the order of their creation
FindImages(productId) ==
    LET rows == SelectSeq(db.productImage, LAMBDA r : r.productId = productId)
        sorted == SelectSeq(rows, LAMBDA r : r.isPrimary)
                  \o SelectSeq(rows, LAMBDA r : ~r.isPrimary)
    IN  [i \in DOMAIN sorted |-> Omit(sorted[i], {"productId", "updatedAt"})]

ImageFindByProductId(productId) ==
    /\ Idle /\ svc = "productImage"
    /\ resp' = Ok("findByProductId", productId, FindImages(productId))
    /\ task' = [op |-> "findByProductId", id |-> productId, data |-> <<>>]
    /\ emitted' = <<>>
    /\ UNCHANGED <<db, now, svc, pc, calls, uuid, running>>

InitImage ==
    /\ \E data \in SeqsUpTo(ImageData, MaxRows) :
            db = [RelDb EXCEPT !.productImage = ImageRows(data)]
    /\ now = 2
    /\ svc = "productImage"
    /\ resp = NoResp
    /\ pc = "idle"
    /\ task = NoTask
    /\ calls = <<>>
    /\ uuid = 0
    /\ emitted = <<>>
    /\ running = <<>>

NextImage ==
    \/ \E imageId \in ImageIds, productId \in RelProducts,
          fault \in {"none", "updateMany", "update"} :
            SetPrimary(imageId, productId, fault)
    \/ \E productId \in RelProducts : ImageFindByProductId(productId)

SpecImage == InitImage /\ [][NextImage]_vars

\* setPrimary under concurrent messages: its two awaited writes are two steps
NoImageCall == [pc |-> "idle", imageId |-> 0, productId |-> 0, status |-> 0]

SetPrimaryStart(c, imageId, productId) ==
    /\ Idle /\ svc = "productImage"
    /\ running[c].pc = "idle"
    /\ running' = [running EXCEPT ![c] =
            [NoImageCall EXCEPT !.pc = "unsetting", !.imageId = imageId,
                                !.productId = productId]]
    /\ UNCHANGED <<db, now, svc, resp, pc, task, calls, uuid, emitted>>

\* await this.productImage.updateMany(...)
SetPrimaryUnset(c, fault) ==
    LET call == running[c]
    IN  /\ Idle /\ svc = "productImage"
        /\ call.pc = "unsetting"
        /\ IF fault = "updateMany"
           THEN /\ running' = [running EXCEPT ![c] =
                        [call EXCEPT !.pc = "done", !.status = 500]]
                /\ UNCHANGED db
           ELSE /\ db' = [db EXCEPT !.productImage =
                            UnsetPrimary(@, call.productId, now)]
                /\ running' = [running EXCEPT ![c] = [call EXCEPT !.pc = "setting"]]
        /\ UNCHANGED <<now, svc, resp, pc, task, calls, uuid, emitted>>

\* const updated = await this.productImage.update(...)
SetPrimarySet(c, fault) ==
    LET call == running[c]
    IN  /\ Idle /\ svc = "productImage"
        /\ call.pc = "setting"
        /\ IF \/ fault = "update"
              \/ ImageOfProduct(db.productImage, call.imageId, call.productId) = <<>>
           THEN /\ running' = [running EXCEPT ![c] =
                        [call EXCEPT !.pc = "done", !.status = 500]]
                /\ UNCHANGED db
           ELSE /\ db' = [db EXCEPT !.productImage =
                            MarkPrimary(@, call.imageId, call.productId, now)]
                /\ running' = [running EXCEPT ![c] =
                        [call EXCEPT !.pc = "done", !.status = 200]]
        /\ UNCHANGED <<now, svc, resp, pc, task, calls, uuid, emitted>>

InitImageConcurrent ==
    /\ \E data \in SeqsUpTo(ImageData, MaxRows) :
            db = [RelDb EXCEPT !.productImage = ImageRows(data)]
    /\ now = 2
    /\ svc = "productImage"
    /\ resp = NoResp
    /\ pc = "idle"
    /\ task = NoTask
    /\ calls = <<>>
    /\ uuid = 0
    /\ emitted = <<>>
    /\ running = [c \in Callers |-> NoImageCall]

NextImageConcurrent ==
    \/ \E c \in Callers, imageId \in ImageIds, productId \in RelProducts :
            SetPrimaryStart(c, imageId, productId)
    \/ \E c \in Callers, fault \in {"none", "updateMany"} : SetPrimaryUnset(c, fault)
    \/ \E c \in Callers, fault \in {"none", "update"} : SetPrimarySet(c, fault)
    \/ \E productId \in RelProducts : ImageFindByProductId(productId)

SpecImageConcurrent == InitImageConcurrent /\ [][NextImageConcurrent]_vars

-----------------------------------------------------------------------------
(* Properties.  They read the store and the responses; the rows a product  *)
(* or a question has are looked up in the store here, independently of the *)
(* queries of the handlers.                                                *)

Perms(n) == {f \in [1..n -> 1..n] : \A i, j \in 1..n : f[i] = f[j] => i = j}

RowById(table, id) == CHOOSE r \in Range(table) : r.id = id

QuestionRowsOf(productId) ==
    SelectSeq(db.questionProduct,
              LAMBDA r : r.productId = productId /\ r.itemType = "QUESTION")

AnswerRowsOf(questionId) ==
    SelectSeq(db.questionProduct,
              LAMBDA r : r.questionId = questionId /\ r.itemType = "ANSWER")

\* the products that answer a question of product p
AnswerProducts(p) ==
    {a.productId : a \in {r \in Range(db.questionProduct) :
        /\ r.itemType = "ANSWER"
        /\ \E q \in Range(QuestionRowsOf(p)) : q.questionId = r.questionId}}

RECURSIVE ReachableIn(_, _)
ReachableIn(S, n) ==
    IF n = 0 THEN S
    ELSE ReachableIn(S \cup UNION {AnswerProducts(p) : p \in S}, n - 1)

\* the Product -> Question -> answer-Product graph has a cycle reachable from root
CycleFrom(root) ==
    \E p \in ReachableIn({root}, Cardinality(ExpandProducts)) :
        p \in ReachableIn(AnswerProducts(p), Cardinality(ExpandProducts))

Returned(op) == pc = "idle" /\ resp.op = op /\ resp.status = 200

\* tree is the product row p expanded by the rule of the specification: its
\* own fields, and one entry per QUESTION row, each the question's fields and
\* its answer products, expanded in turn
RECURSIVE ExpandsTo(_, _)
ExpandsTo(tree, p) ==
    LET qrows == QuestionRowsOf(p.id)
    IN  /\ DOMAIN tree = DOMAIN p \cup {"questions"}
        /\ \A f \in DOMAIN p : tree[f] = p[f]
        /\ Len(tree.questions) = Len(qrows)
        /\ \E perm \in Perms(Len(qrows)) : \A i \in DOMAIN qrows :
              LET entry == tree.questions[i]
                  q == RowById(db.question, qrows[perm[i]].questionId)
                  arows == AnswerRowsOf(q.id)
              IN  /\ DOMAIN entry = DOMAIN q \cup {"answers"}
                  /\ \A f \in DOMAIN q : entry[f] = q[f]
                  /\ Len(entry.answers) = Len(arows)
                  /\ \E aperm \in Perms(Len(arows)) : \A j \in DOMAIN arows :
                        ExpandsTo(entry.answers[j],
                                  RowById(db.product, arows[aperm[j]].productId))

\* C1: findOne of a product answers with the product's fields and a questions
\* field holding one entry per QUESTION row of the product; each entry is the
\* question's own fields, without its questionProducts list, and answers, the
\* question's answer products, each expanded by the same rule (answers is
\* empty for a question without ANSWER rows).
ExpansionFollowsRows ==
    Returned("findOne") => ExpandsTo(resp.body, RowById(db.product, resp.id))

\* a returned tree with an answer that has a question of its own, which in
\* turn has no answers
NestedExpansionReturned ==
    /\ Returned("findOne")
    /\ \E i \in DOMAIN resp.body.questions :
         \E j \in DOMAIN resp.body.questions[i].answers :
           \E m \in DOMAIN resp.body.questions[i].answers[j].questions :
             resp.body.questions[i].answers[j].questions[m].answers = <<>>

\* C2: a product without QUESTION rows, also one that is only the answer of
\* questions, is returned with its own fields unchanged and questions = [].
NoQuestionRowsNoQuestions ==
    (Returned("findOne") /\ QuestionRowsOf(resp.id) = <<>>)
        => resp.body = [questions |-> <<>>] @@ RowById(db.product, resp.id)

\* a product returned without questions that is the answer of a question
AnswerOnlyProductReturned ==
    /\ Returned("findOne")
    /\ QuestionRowsOf(resp.id) = <<>>
    /\ \E r \in Range(db.questionProduct) :
            r.itemType = "ANSWER" /\ r.productId = resp.id

\* C3: when no cycle of the question graph is reachable from the root
\* product, the expansion a findOne started ends and findOne returns the tree.
AcyclicExpansionReturns ==
    (pc = "expanding" /\ ~CycleFrom(task.id)) ~> Returned("findOne")

\* a tree returned after the recursion went into an answer product
DeepExpansionReturned ==
    /\ Returned("findOne")
    /\ ~CycleFrom(resp.id)
    /\ \E path \in DOMAIN calls : Len(path) = 2 /\ calls[path].queried

\* C4: when a cycle of the question graph is reachable from the root product,
\* the handler that expands it never returns: it stays in the expansion.
CyclicExpansionNeverReturns ==
    [][(pc = "expanding" /\ CycleFrom(task.id)) => pc' = "expanding"]_vars

\* the expansion of a cyclic root went once around: a product is on its own
\* path
CyclicExpansionUnderWay ==
    /\ pc = "expanding"
    /\ CycleFrom(task.id)
    /\ \E path \in DOMAIN calls :
         \E shorter \in DOMAIN calls :
            /\ Len(shorter) < Len(path)
            /\ shorter = SubSeq(path, 1, Len(shorter))
            /\ calls[shorter].entity.id = calls[path].entity.id

\* the questions of every product of the tree can be matched with the
\* product's QUESTION rows so that the positions of the rows ascend
RECURSIVE InPositionOrder(_)
InPositionOrder(tree) ==
    LET qrows == QuestionRowsOf(tree.id)
    IN  /\ \E perm \in Perms(Len(qrows)) :
            /\ \A i \in DOMAIN qrows :
                    tree.questions[i].id = qrows[perm[i]].questionId
            /\ \A i, j \in DOMAIN qrows :
                    i < j => qrows[perm[i]].position <= qrows[perm[j]].position
        /\ \A i \in DOMAIN tree.questions :
              \A j \in DOMAIN tree.questions[i].answers :
                  InPositionOrder(tree.questions[i].answers[j])

\* C5: in the tree findOne returns, the questions of every product appear in
\* ascending order of the position of the QUESTION rows that attach them.
QuestionsInPositionOrder ==
    Returned("findOne") => InPositionOrder(resp.body)

\* C6: a row whose deletedAt is set is in no list of findAll or searchByName,
\* and findOne on its id answers NotFound, whatever its status flag is.
SoftDeletedHidden ==
    /\ (resp.op \in {"findAll", "searchByName"} /\ resp.status = 200) =>
            \A r \in Range(db[svc]) :
                r.deletedAt # NullTime =>
                    \A i \in DOMAIN resp.body.list : resp.body.list[i].id # r.id
    /\ (resp.op = "findOne"
        /\ \E r \in Range(db[svc]) : r.id = resp.id /\ r.deletedAt # NullTime)
            => resp.status = 404

\* a list that holds a live row and leaves out a soft-deleted row of the
\* same name
DeletedRowLeftOut ==
    /\ resp.op \in {"findAll", "searchByName"}
    /\ \E i \in DOMAIN resp.body.list :
         \E r \in Range(db[svc]) :
            r.deletedAt # NullTime /\ r.name = resp.body.list[i].name

\* C7: update on an id without a row, or whose row is soft-deleted, answers
\* NotFound and leaves the store as it was.
UpdateOfMissingWritesNothing ==
    [][(resp'.op = "update"
        /\ ~\E r \in Range(db[svc]) : r.id = resp'.id /\ r.deletedAt = NullTime)
            => (resp'.status = 404 /\ db' = db)]_vars

\* update answered NotFound for a row that is in the store, soft-deleted
UpdateOfDeletedRefused ==
    /\ resp.op = "update"
    /\ resp.status = 404
    /\ \E r \in Range(db[svc]) : r.id = resp.id /\ r.deletedAt # NullTime

\* the value a findByProductId entry has for field f of the request item
EntryField(entry, f) ==
    CASE f = "tagId" -> entry.id
      [] f = "ingredientId" -> entry.ingredient.id
      [] f = "questionId" -> entry.question.id
      [] OTHER -> entry[f]

\* list holds the items, each once, with the content the request gave them
ReturnsExactly(list, items) ==
    /\ Len(list) = Len(items)
    /\ \E perm \in Perms(Len(items)) :
          \A i \in DOMAIN items : \A f \in DOMAIN items[i] :
              /\ f \in DOMAIN list[perm[i]] \cup {"tagId", "ingredientId", "questionId"}
              /\ EntryField(list[perm[i]], f) = items[i][f]

\* C8: findByProductId(X) right after a replaceByProductId(X, newItems)
\* returns exactly newItems, same count and same content, each in a row the
\* replace created.
ReplaceThenFindReturnsItems ==
    [][(resp.op = "replaceByProductId" /\ resp.status = 200
        /\ resp'.op = "findByProductId" /\ resp'.id = resp.id)
            => /\ ReturnsExactly(resp'.body, task.data)
               /\ svc # "productTag" =>
                    \A i \in DOMAIN resp'.body :
                        resp'.body[i].id > uuid - Len(task.data)]_vars

\* C9: when bulkCreate fails in replaceByProductId(X, newItems) after
\* removeByProductId(X) went through, the call answers with an error and X
\* has no relationship row left.
FailedReplaceLeavesNoRows ==
    (resp.op = "replaceByProductId" /\ task.deletedCount >= 0 /\ resp.status # 200)
        => (resp.status = 500 /\ RowsOf(db, svc, resp.id) = <<>>)

\* a replace that removed rows and then failed
ReplaceFailedAfterRemoval ==
    /\ resp.op = "replaceByProductId"
    /\ resp.status = 500
    /\ task.deletedCount > 0

FlagFields(k) ==
    CASE k = "product" \/ k \in StatusColumnKinds -> {"status"}
      [] k = "question" -> {"isActive"}
      [] OTHER -> {}

Inactive(k, row) ==
    CASE k = "product" -> row.status = "INACTIVE"
      [] k \in StatusColumnKinds -> row.status = FALSE
      [] k = "question" -> row.isActive = FALSE
      [] OTHER -> TRUE

\* the step in which remove(id, deletedBy) of a live row writes
RemoveStep(id, deletedBy) ==
    /\ resp'.op = "remove" /\ resp'.status = 200 /\ resp'.id = id
    /\ \/ Remove(id, deletedBy)
       \/ Finish /\ task.op = "remove" /\ task.data.deletedBy = deletedBy

\* the row is kept and soft-deleted by the actor; all else is as before,
\* but for the fields of the row named in except
SoftDeleted(id, deletedBy, except) ==
    /\ \A k \in DOMAIN db : k # svc => db'[k] = db[k]
    /\ Len(db'[svc]) = Len(db[svc])
    /\ \A i \in DOMAIN db[svc] :
         IF db[svc][i].id # id THEN db'[svc][i] = db[svc][i]
         ELSE /\ db'[svc][i].id = id
              /\ db'[svc][i].deletedAt # NullTime
              /\ db'[svc][i].deletedBy = deletedBy
              /\ Inactive(svc, db'[svc][i])
              /\ DOMAIN db'[svc][i] = DOMAIN db[svc][i]
              /\ \A f \in DOMAIN db[svc][i] \
                        ({"deletedAt", "deletedBy"} \cup FlagFields(svc) \cup except) :
                     db'[svc][i][f] = db[svc][i][f]

\* C10: remove(id, deletedBy) of a live row keeps the row, sets its deletedAt,
\* sets deletedBy to the actor and its flag to inactive; every other row is
\* unchanged, and so is every other field of the row but updatedAt, which the
\* ORM sets at every write.
RemoveSoftDeletes ==
    [][\A id \in IdInputs, a \in Actors :
          RemoveStep(id, a) => SoftDeleted(id, a, {"updatedAt"})]_vars

\* C10 as stated: every other field of the row is unchanged
RemoveChangesNothingElse ==
    [][\A id \in IdInputs, a \in Actors :
          RemoveStep(id, a) => SoftDeleted(id, a, {})]_vars

\* a row was soft-deleted next to a row that is live
RowSoftDeleted ==
    /\ resp.op = "remove"
    /\ resp.status = 200
    /\ \E r \in Range(db[svc]) : r.id = resp.id /\ r.deletedAt # NullTime
    /\ \E r \in Range(db[svc]) : r.id # resp.id /\ r.deletedAt = NullTime

\* C11: remove on an id without a row, or whose row is already soft-deleted,
\* answers NotFound and leaves the store as it was: the deletedAt and the
\* deletedBy of an already-deleted row are not written again.
RemoveOfMissingWritesNothing ==
    [][(resp'.op = "remove"
        /\ ~\E r \in Range(db[svc]) : r.id = resp'.id /\ r.deletedAt = NullTime)
            => (resp'.status = 404 /\ db' = db)]_vars

\* remove answered NotFound for a row that an earlier remove soft-deleted
SecondRemoveRefused ==
    /\ resp.op = "remove"
    /\ resp.status = 404
    /\ \E r \in Range(db[svc]) :
            r.id = resp.id /\ r.deletedAt # NullTime /\ r.deletedBy \in Actors

\* the row counts as active: its flag, where the entity has one, says so
Active(k, row) ==
    CASE k = "product" -> row.status = "ACTIVE"
      [] k \in StatusColumnKinds -> row.status = TRUE
      [] k = "question" -> row.isActive = TRUE
      [] OTHER -> TRUE

\* C12: findOne(id) succeeds exactly when a row with that id is in the store
\* and is not soft-deleted, whatever its active flag says; in every other
\* case it answers NotFound.
FindOneIffLive ==
    [][resp'.op = "findOne" =>
          /\ resp'.status \in {200, 404}
          /\ resp'.status = 200 <=>
                \E r \in Range(db[svc]) : r.id = resp'.id /\ r.deletedAt = NullTime]_vars

\* C12 as stated: findOne succeeds only for a row that is also active
FindOneIffLiveAndActive ==
    [][resp'.op = "findOne" =>
          /\ resp'.status \in {200, 404}
          /\ resp'.status = 200 <=>
                \E r \in Range(db[svc]) :
                    r.id = resp'.id /\ r.deletedAt = NullTime /\ Active(svc, r)]_vars

\* findOne answered with a row that is live and not active
InactiveRowFound ==
    /\ resp.op = "findOne"
    /\ resp.status = 200
    /\ \E r \in Range(db[svc]) :
            r.id = resp.id /\ r.deletedAt = NullTime /\ ~Active(svc, r)

\* the rows of the service's table that the lists are to show, in store order
Matching == SelectSeq(db[svc], LAMBDA r : r.deletedAt = NullTime /\ Active(svc, r))

\* the least n with n * limit >= total
Ceil(total, limit) == CHOOSE n \in 0..total : n * limit >= total /\ (n = 0 \/ (n - 1) * limit < total)

\* body is the page of the matching rows that findAll(page, limit) is to
\* answer with; the rows are taken in store order, or by name ascending where
\* the service orders by name
IsPageOf(body, page, limit) ==
    LET total == Len(Matching)
        skip == (page - 1) * limit
        count == IF total - skip < 0 THEN 0 ELSE Min(limit, total - skip)
    IN  /\ body.meta.total = total
        /\ body.meta.lastPage = Ceil(total, limit)
        /\ body.meta.page = page
        /\ Len(body.list) = count
        /\ page > body.meta.lastPage => body.list = <<>>
        /\ \E perm \in Perms(total) :
              /\ \A i, j \in 1..total :
                    i < j => IF svc \in OrderByNameKinds
                             THEN ~NameLess(Matching[perm[j]].name, Matching[perm[i]].name)
                             ELSE perm[i] < perm[j]
              /\ \A i \in 1..count : body.list[i] = Matching[perm[skip + i]]

\* C13: findAll(page, limit) answers with meta.total the number of rows that
\* are active and not deleted, meta.lastPage = ceil(total / limit), 0 when
\* there is none, meta.page = page, and list the matching rows after the first
\* (page - 1) * limit of them, at most limit, none when page > lastPage.
FindAllPaginates ==
    [][resp'.op = "findAll" =>
          \A page \in Pages, limit \in Limits :
              FindAll(page, limit) => IsPageOf(resp'.body, page, limit)]_vars

\* a second page that is not full, after a first page that was
PartialLastPageReturned ==
    /\ resp.op = "findAll"
    /\ resp.body.meta.page = 2
    /\ resp.body.meta.lastPage = 2
    /\ resp.body.meta.total = 3
    /\ Len(resp.body.list) = 1

\* the last handler failed: it answered with an error, not with a value
Failed == resp.op # "none" /\ "body" \notin DOMAIN resp

\* C14: every failure of a handler reaches the caller as a structured error
\* { status, message }: status 404 when the service found no row, status 500
\* for every other failure; the translation handlers are no exception.
HandlerErrorsStructured ==
    Failed =>
        /\ "status" \in DOMAIN resp
        /\ resp.status \in {404, 500}
        /\ (resp.op \in {"findOne", "update", "delete"}
            /\ \A r \in Range(db[svc]) : r.id # resp.id) => resp.status = 404

\* C15: validateProducts(ids) fails when an id of ids is the id of a product
\* whose deletedAt is set, and no product it returns has its deletedAt set.
ValidateRejectsSoftDeleted ==
    [][\A idList \in IdLists :
          (resp'.op = "validateProducts" /\ ValidateProducts(idList)) =>
              /\ (\E r \in Range(db.product) :
                      r.id \in Range(idList) /\ r.deletedAt # NullTime)
                    => resp'.status # 200
              /\ resp'.status = 200 =>
                    \A i \in DOMAIN resp'.body : resp'.body[i].deletedAt = NullTime]_vars

\* no question and no answer product of the tree, at any depth, is soft-deleted
RECURSIVE TreeLive(_)
TreeLive(tree) ==
    \A i \in DOMAIN tree.questions :
        /\ tree.questions[i].deletedAt = NullTime
        /\ \A j \in DOMAIN tree.questions[i].answers :
              /\ tree.questions[i].answers[j].deletedAt = NullTime
              /\ TreeLive(tree.questions[i].answers[j])

\* C16: the tree findOne returns holds no soft-deleted entity: no entry of a
\* questions array is a question whose deletedAt is set, and no entry of an
\* answers array is a product whose deletedAt is set, at any depth.
NoSoftDeletedInTree == Returned("findOne") => TreeLive(resp.body)

IsNotFound(r) ==
    /\ "body" \notin DOMAIN r
    /\ IF "status" \in DOMAIN r THEN r.status = 404
       ELSE r.exception = "NotFoundException"

FindInsideReplaceSeesNoRows ==
    [][(/\ resp'.op = "findByProductId"
        /\ FindByProductId(resp'.id)
        /\ \E c \in Callers : /\ running[c].pc = "creating"
                               /\ running[c].productId = resp'.id
        /\ \A c \in Callers : ~(/\ running[c].pc = "done"
                                 /\ running[c].status = 200
                                 /\ running[c].productId = resp'.id))
            => resp'.body = <<>>]_vars

\* a find answered with zero rows while the only call, a replace with new
\* items of a product that had rows, is between its delete and its insert
ZeroRowsSeenDuringReplace ==
    /\ resp.op = "findByProductId" /\ resp.status = 200 /\ resp.body = <<>>
    /\ \E c \in Callers :
            /\ running[c].pc = "creating"
            /\ running[c].productId = resp.id
            /\ running[c].items # <<>>
            /\ running[c].deletedCount > 0
            /\ \A c2 \in Callers \ {c} : running[c2].pc = "idle"

\* the rows of product productId without their generated ids
StoredItems(productId) ==
    LET rows == RowsOf(db, svc, productId)
    IN  [i \in DOMAIN rows |-> Omit(rows[i], {"id"})]

\* the rows a replace with these items stores, without their generated ids
ItemsAsStored(productId, items) ==
    LET data == RelationshipData(svc, productId, items)
    IN  [i \in DOMAIN data |->
            IF svc = "productTag" THEN data[i] ELSE WithDefaults(svc, data[i])]

\* C20: when two replaceByProductId calls for the same product have both
\* completed successfully, the rows stored for the product are exactly the
\* items of one of them.
ReplaceLeavesOneList ==
    \A c1, c2 \in Callers :
        (/\ c1 # c2
         /\ running[c1].pc = "done" /\ running[c1].status = 200
         /\ running[c2].pc = "done" /\ running[c2].status = 200
         /\ running[c1].productId = running[c2].productId)
            => \/ StoredItems(running[c1].productId)
                    = ItemsAsStored(running[c1].productId, running[c1].items)
               \/ StoredItems(running[c1].productId)
                    = ItemsAsStored(running[c2].productId, running[c2].items)

\* C21: in every interleaving of concurrent update and remove calls on one
\* entity, no step writes to a row whose deletedAt is already set: a
\* soft-deleted row stays exactly as it is.
NoWriteToSoftDeletedRow ==
    [][\A i \in DOMAIN db[svc] :
            db[svc][i].deletedAt # NullTime => db'[svc][i] = db[svc][i]]_vars

\* the questions of every product of the tree are those of the product's
\* QUESTION rows, and the answers of every question those of its ANSWER
\* rows, both in the order of the rows in the store
RECURSIVE InStoreOrder(_)
InStoreOrder(tree) ==
    LET qrows == QuestionRowsOf(tree.id)
    IN  /\ Len(tree.questions) = Len(qrows)
        /\ \A i \in DOMAIN qrows :
              LET arows == AnswerRowsOf(qrows[i].questionId)
                  answers == tree.questions[i].answers
              IN  /\ tree.questions[i].id = qrows[i].questionId
                  /\ Len(answers) = Len(arows)
                  /\ \A j \in DOMAIN arows :
                        /\ answers[j].id = arows[j].productId
                        /\ InStoreOrder(answers[j])

ImagesOf(d, productId) ==
    {r \in Range(d.productImage) : r.productId = productId}

\* C24: after a successful setPrimary(imageId, productId) the image imageId
\* is primary, every other image of the product is not, and the images of
\* other products are as they were.
SetPrimaryLeavesOnePrimary ==
    [][(resp'.op = "setPrimary" /\ resp'.status = 200) =>
        LET productId == task'.data.productId
        IN  /\ \E r \in ImagesOf(db', productId) : r.id = resp'.id
            /\ \A r \in ImagesOf(db', productId) :
                    r.isPrimary <=> r.id = resp'.id
            /\ \A i \in DOMAIN db.productImage :
                    db.productImage[i].productId # productId
                        => db'.productImage[i] = db.productImage[i]
            /\ Len(db'.productImage) = Len(db.productImage)]_vars

\* setPrimary succeeded for a product that has another image, and another
\* product still has its primary image
PrimaryMovedAmongImages ==
    /\ resp.op = "setPrimary" /\ resp.status = 200
    /\ \E r \in ImagesOf(db, task.data.productId) : r.id # resp.id
    /\ \E r \in Range(db.productImage) :
            r.productId # task.data.productId /\ r.isPrimary

\* C25: when setPrimary(imageId, productId) fails because no image imageId
\* belongs to productId, the images of productId are as they were before the
\* call: the image that was primary is still primary.
FailedSetPrimaryChangesNothing ==
    [][(/\ resp'.op = "setPrimary" /\ resp'.status # 200
        /\ ImageOfProduct(db.productImage, resp'.id, task'.data.productId) = <<>>)
            => \A i \in DOMAIN db.productImage :
                    db.productImage[i].productId = task'.data.productId
                        => db'.productImage[i].isPrimary = db.productImage[i].isPrimary]_vars

\* C26: when two concurrent setPrimary calls for one product, with different
\* images, have both succeeded, exactly one image of the product is primary.
ConcurrentSetPrimaryLeavesOne ==
    \A c1, c2 \in Callers :
        (/\ running[c1].pc = "done" /\ running[c1].status = 200
         /\ running[c2].pc = "done" /\ running[c2].status = 200
         /\ running[c1].productId = running[c2].productId
         /\ running[c1].imageId # running[c2].imageId)
            => Cardinality({r \in ImagesOf(db, running[c1].productId) : r.isPrimary}) = 1

\* C27: product-question removeByProductId(X) and replaceByProductId(X, ...)
\* delete only the rows that attach questions to X: every ANSWER row, also
\* one in which X is the answer, is still in the table afterwards.
RemoveKeepsAnswerRows ==
    [][(/\ svc = "questionProduct"
        /\ resp'.op \in {"removeByProductId", "replaceByProductId"}
        /\ resp'.status = 200)
            => \A r \in Range(db.questionProduct) :
                    r.itemType = "ANSWER" => r \in Range(db'.questionProduct)]_vars

\* C28: product-question bulkCreate stores for the item at index i the
\* position the item gives, also when it is 0, and i only for an item
\* without a position.
BulkCreateKeepsGivenPosition ==
    [][(svc = "questionProduct" /\ resp'.op = "bulkCreate" /\ resp'.status = 200)
        => \A productId \in RelProducts,
              items \in SeqsUpTo(ItemDtos("questionProduct"), MaxItems) :
                BulkCreate(productId, items, "none") =>
                    \A i \in DOMAIN items :
                        db'.questionProduct[Len(db.questionProduct) + i].position
                            = IF "position" \in DOMAIN items[i]
                              THEN items[i].position
                              ELSE i - 1]_vars

====
